---- MODULE Spec2Model ----
(***************************************************************************)
(* Model of the snowplow-rust-tracker delivery core: the in-memory event   *)
(* store (src/src/event_store/in_memory_event_store.rs), the event batch   *)
(* and its retry bookkeeping (src/src/event_batch.rs) and the batch        *)
(* emitter with its worker loop and send tasks                             *)
(* (src/src/emitter/batch_emitter.rs).                                     *)
(*                                                                         *)
(* The specifications share the variables:                                 *)
(*   Spec        - the emitter: producer calls, worker loop, send tasks,   *)
(*                 under NoRetry and MaxRetries(n), any collector          *)
(*   SpecForever - the same under RetryForever                             *)
(*   SpecFlakey  - the same with the FlakeyHttpClient of the tests         *)
(*   SpecRejecting - the same with a collector that rejects every batch    *)
(*   SpecDrop    - Spec with the destructor of the emitter                 *)
(*   SpecClose   - Spec with a producer that stops calling after close()   *)
(*   SpecLive    - the emitter and its destructor under fair scheduling    *)
(*   SpecAck     - the emitter, never closed, under fair scheduling        *)
(*   SpecStore   - the event store driven directly through its trait       *)
(*   SpecPure    - the pure functions should_retry and has_retry           *)
(*   SpecDelay   - consecutive update_for_retry calls on one batch         *)
(*   SpecStamp   - the emitter while the system clock advances             *)
(*   SpecLock    - the emitter with the steps that lock the event store    *)
(***************************************************************************)
EXTENDS Integers, Sequences, FiniteSets, TLC

VARIABLES
    capacity,       \* InMemoryEventStoreQueue.capacity
    batch_size,     \* InMemoryEventStore.batch_size
    queue,          \* InMemoryEventStoreQueue.queue : Seq of PayloadBuilder
    next_eid,       \* next fresh event id (stands for Uuid::new_v4)
    retry_policy,   \* the RetryPolicy given to start_tokio
    transport,      \* the HttpClient double in use
    count,          \* FlakeyHttpClient.count
    tx,             \* the bounded command channel (BatchEmitter.tx .. rx)
    retry_rx,       \* the unbounded retry channel (retry_tx .. retry_rx)
    worker,         \* position of the loop of start_tokio
    tokio_tasks,    \* the Vec of JoinHandles of start_tokio, with each task's state
    emitter,        \* lifetime of the BatchEmitter value (alive / in drop / dropped)
    last,           \* the call (producer call or post) that returned in the last step
    spawned,        \* ids of the batches for which the loop spawned a send task
    posts,          \* per batch id: number of HttpClient::post calls made for it
    acks,           \* per batch id: number of cleanup_after_send_attempt calls
    now,            \* SystemTime::now(), as a count of clock ticks since the start
    store_lock      \* who holds the Mutex around the event store

vars == <<capacity, batch_size, queue, next_eid, retry_policy, transport, count,
          tx, retry_rx, worker, tokio_tasks, emitter, last, spawned, posts, acks,
          now, store_lock>>

configVars == <<capacity, batch_size, retry_policy, transport>>
ghostVars == <<spawned, posts, acks>>

(***************************************************************************)
(* Bounds of the model                                                     *)
(***************************************************************************)
MaxCapacity == 2        \* the emitter runs with a store of capacity 1 or MaxCapacity
MaxPayloads == 2        \* number of distinct payloads created in a run
MaxN == 1               \* largest n of RetryPolicy::MaxRetries(n) explored by Spec
MaxAttempts == 1        \* cap on retry_attempts under RetryForever
MaxFlakeyN == 2         \* largest n of MaxRetries(n) explored by SpecFlakey
MaxStoreCapacity == 3   \* largest queue capacity explored by SpecStore
MaxStoreBatchSize == 3  \* largest batch size explored by SpecStore
MaxStorePayloads == 5   \* number of distinct payloads created in a run of SpecStore
MaxCode == 599          \* status codes explored by SpecPure: 0..MaxCode
MaxPureN == 12          \* n and retry_attempts explored by SpecPure
MaxDelaySteps == 14     \* consecutive retries of one batch explored by SpecDelay
MaxNow == 2             \* clock ticks explored by SpecStamp

Min(a, b) == IF a <= b THEN a ELSE b

(***************************************************************************)
(* Results: Rust's Result<T, Error> as a record                            *)
(***************************************************************************)
Ok(v) == [ok |-> TRUE, val |-> v]
Err(e) == [ok |-> FALSE, val |-> e]

(***************************************************************************)
(* Payloads.  A PayloadBuilder carries its event id and whether            *)
(* finalise_payload succeeds on it (a builder with an uninitialised        *)
(* required field, such as PayloadBuilder::default(), does not build).     *)
(***************************************************************************)
PayloadBuilder(eid, complete) == [eid |-> eid, complete |-> complete]

finalise_payload(e) ==
    IF e.complete THEN Ok([eid |-> e.eid, stm |-> now]) ELSE Err("BuilderError")

(***************************************************************************)
(* event_batch.rs                                                          *)
(***************************************************************************)
NoRetry == [kind |-> "NoRetry", n |-> 0]
MaxRetries(n) == [kind |-> "MaxRetries", n |-> n]
RetryForever == [kind |-> "RetryForever", n |-> 0]

\* Option<Duration> as a set: {} is None, {d} is Some(d)
None == {}
Some(d) == {d}
Unwrap(o) == CHOOSE d \in o : TRUE

EventBatch_new(id, events) ==
    [id |-> id, events |-> events, delay |-> None, retry_attempts |-> 0]

\* sets the stm of every event of the batch to the current time
update_event_stm(batch) ==
    [batch EXCEPT !.events = [i \in 1..Len(@) |-> [@[i] EXCEPT !.stm = now]]]

has_retry_weak(batch, policy) ==
    CASE policy.kind = "NoRetry" -> FALSE
      [] policy.kind = "MaxRetries" -> batch.retry_attempts <= policy.n
      [] policy.kind = "RetryForever" -> TRUE

has_retry(batch, policy) ==
    CASE policy.kind = "NoRetry" -> FALSE
      [] policy.kind = "MaxRetries" -> batch.retry_attempts < policy.n
      [] policy.kind = "RetryForever" -> TRUE

(***************************************************************************)
(* Duration and f32, as far as update_for_retry uses them.  A Duration is  *)
(* whole seconds and nanoseconds below NANOS_PER_SEC.  An f32 is m * 2^e   *)
(* with m = 0 or 2^23 <= m < 2^24; every operation rounds to the nearest   *)
(* f32, ties to even.  The delays of a batch lie between one second and    *)
(* three times max_event_delay_time, far from the exponents at which an    *)
(* f32 overflows or becomes subnormal.                                     *)
(***************************************************************************)
NANOS_PER_SEC == 1000000000

Duration(secs, nanos) == [secs |-> secs, nanos |-> nanos]

from_secs(secs) == Duration(secs, 0)

\* the derived Ord of Duration compares secs, then nanos
DurationLe(a, b) == a.secs < b.secs \/ (a.secs = b.secs /\ a.nanos <= b.nanos)

\* Ord::min
DurationMin(a, b) == IF DurationLe(a, b) THEN a ELSE b

F32(m, e) == [m |-> m, e |-> e]

Pow2(n) == 2^n

\* the number of binary digits of x, 0 <= x < 2^31
BitLen(x) ==
    IF x = 0 THEN 0
    ELSE CHOOSE n \in 1..31 : Pow2(n - 1) <= x /\ (n = 31 \/ x < Pow2(n))

\* x / 2^s for s >= 1, to the nearest integer, ties to even; sticky says that
\* the exact value lies above x by less than one unit
RoundShift(x, s, sticky) ==
    LET q == x \div Pow2(s)
        r == x % Pow2(s)
        half == Pow2(s - 1)
    IN  IF r > half \/ (r = half /\ (sticky \/ q % 2 = 1)) THEN q + 1 ELSE q

\* the f32 nearest to x * 2^e, for an integer 0 <= x < 2^31; sticky as above and
\* only with x >= 2^24
f32_round(x, e, sticky) ==
    LET len == BitLen(x)
    IN  IF x = 0 THEN F32(0, 0)
        ELSE IF len <= 24 THEN F32(x * Pow2(24 - len), e - (24 - len))
        ELSE LET m == RoundShift(x, len - 24, sticky)
             IN  IF m = Pow2(24)
                 THEN F32(Pow2(23), e + len - 23)
                 ELSE F32(m, e + len - 24)

\* `n as f32` of an unsigned integer
as_f32(n) == f32_round(n, 0, FALSE)

\* x + y: the smaller operand is aligned to the larger one with two guard bits
f32_add(x, y) ==
    IF x.m = 0 THEN y
    ELSE IF y.m = 0 THEN x
    ELSE LET big == IF x.e >= y.e THEN x ELSE y
             small == IF x.e >= y.e THEN y ELSE x
             d == big.e - small.e
             aligned == IF d > 26 THEN 0 ELSE (4 * small.m) \div Pow2(d)
             sticky == IF d > 26 THEN TRUE ELSE (4 * small.m) % Pow2(d) # 0
         IN  f32_round(4 * big.m + aligned, big.e - 2, sticky)

\* x * y: the 48-bit product of the mantissas from their 12-bit halves
f32_mul(x, y) ==
    IF x.m = 0 \/ y.m = 0 THEN F32(0, 0)
    ELSE LET x1 == x.m \div 4096
             x0 == x.m % 4096
             y1 == y.m \div 4096
             y0 == y.m % 4096
             mid == x1 * y0 + x0 * y1
             low == (mid % 4096) * 4096 + x0 * y0
             hi == x1 * y1 + mid \div 4096 + low \div Pow2(24)
             lo == low % Pow2(24)
         IN  f32_round(4 * hi + lo \div Pow2(22), x.e + y.e + 22,
                       lo % Pow2(22) # 0)

\* x / y, y # 0: the quotient of the mantissas to 25 binary places, 7, 7, 7 and
\* 4 places at a time so that every intermediate value stays below 2^31
f32_div(x, y) ==
    IF x.m = 0 THEN F32(0, 0)
    ELSE LET q0 == x.m \div y.m
             r0 == x.m % y.m
             q1 == (128 * r0) \div y.m
             r1 == (128 * r0) % y.m
             q2 == (128 * r1) \div y.m
             r2 == (128 * r1) % y.m
             q3 == (128 * r2) \div y.m
             r3 == (128 * r2) % y.m
             q4 == (16 * r3) \div y.m
             r4 == (16 * r3) % y.m
         IN  f32_round((((q0 * 128 + q1) * 128 + q2) * 128 + q3) * 16 + q4,
                       x.e - y.e - 25, r4 # 0)

\* Duration::as_secs_f32: (secs as f32) + (nanos as f32) / (NANOS_PER_SEC as f32);
\* every intermediate value is bound, so that it is computed once
as_secs_f32(d) ==
    CHOOSE sum \in
        {f32_add(whole, fraction) :
            whole \in {as_f32(d.secs)},
            fraction \in {f32_div(nanos, per_sec) :
                            nanos \in {as_f32(d.nanos)},
                            per_sec \in {as_f32(NANOS_PER_SEC)}}} : TRUE

\* x * NANOS_PER_SEC / 2^s for 0 <= x < 2^24, x < 2^s and s <= 29.
\* NANOS_PER_SEC is 1953125 * 2^9, so this is x * 1953125 / 2^(s - 9): q is
\* its whole part and r the remainder of that division.  The product
\* x * 1953125 is built from the three bytes of x as top * 2^16 + low,
\* low < 2^16.
mul_div(x, s) ==
    IF s <= 9 THEN [q |-> x * 1953125 * Pow2(9 - s), r |-> 0]
    ELSE LET t == s - 9
             p0 == (x % 256) * 1953125
             p1 == ((x \div 256) % 256) * 1953125 + (p0 \div 256)
             top == (x \div 65536) * 1953125 + (p1 \div 256)
             low == (p1 % 256) * 256 + (p0 % 256)
         IN  IF t >= 16
             THEN [q |-> top \div Pow2(t - 16),
                   r |-> (top % Pow2(t - 16)) * 65536 + low]
             ELSE [q |-> top * Pow2(16 - t) + (low \div Pow2(t)),
                   r |-> low % Pow2(t)]

\* Duration::from_secs_f32 of a value v >= 0: the whole part of v is secs, its
\* fraction is rounded to the nearest nanosecond, ties to even
from_secs_f32(v) ==
    IF v.m = 0 THEN Duration(0, 0)
    ELSE IF v.e >= 0 THEN Duration(v.m * Pow2(v.e), 0)
    ELSE LET s == 0 - v.e
             f == mul_div(v.m % Pow2(s), s)
             \* half a nanosecond in units of 2^-s nanoseconds; a value of
             \* s <= 9 is a whole number of nanoseconds
             half == IF s <= 9 THEN 1 ELSE Pow2(s - 10)
             nanos == IF f.r > half \/ (f.r = half /\ f.q % 2 = 1)
                      THEN f.q + 1 ELSE f.q
         IN  IF nanos = NANOS_PER_SEC
             THEN Duration(v.m \div Pow2(s) + 1, 0)
             ELSE Duration(v.m \div Pow2(s), nanos)

\* Duration::mul_f32: from_secs_f32(rhs * self.as_secs_f32()); every
\* intermediate value is bound, so that it is computed once
mul_f32(d, rhs) ==
    CHOOSE result \in
        {from_secs_f32(v) :
            v \in {f32_mul(rhs, secs) :
                     secs \in {as_secs_f32(self) : self \in {d}}}} : TRUE

max_event_delay_time == from_secs(600000)

\* gen_range(1.0..=3.0), sampled at its end points 1.0 and 3.0
DelayMul == {as_f32(1), as_f32(3)}

\* the factors update_for_retry may draw: it draws only when a delay is set
jitter(batch) == IF batch.delay = None THEN {as_f32(1)} ELSE DelayMul

\* the retry is not counted, unlike update_for_retry
update_for_retry_uncounted(batch, delay_mul) ==
    [batch EXCEPT
        !.delay = IF batch.delay = None
                  THEN Some(from_secs(1))
                  ELSE Some(DurationMin(mul_f32(Unwrap(batch.delay), delay_mul),
                                        max_event_delay_time))]

\* the first event is lost on the way to the retry, unlike update_for_retry
update_for_retry_losing_event(batch, delay_mul) ==
    [batch EXCEPT
        !.events = Tail(batch.events),
        !.retry_attempts = batch.retry_attempts + 1,
        !.delay = IF batch.delay = None
                  THEN Some(from_secs(1))
                  ELSE Some(DurationMin(mul_f32(Unwrap(batch.delay), delay_mul),
                                        max_event_delay_time))]

\* the product is not capped, unlike update_for_retry
update_for_retry_uncapped(batch, delay_mul) ==
    [batch EXCEPT
        !.retry_attempts = batch.retry_attempts + 1,
        !.delay = IF batch.delay = None
                  THEN Some(from_secs(1))
                  ELSE Some(mul_f32(Unwrap(batch.delay), delay_mul))]

\* retry_attempts is a u32; the guards keep it at MaxAttempts or below, far from
\* the 2^32 at which `+= 1` would overflow
update_for_retry(batch, delay_mul) ==
    [batch EXCEPT
        !.retry_attempts = batch.retry_attempts + 1,
        !.delay = IF batch.delay = None
                  THEN Some(from_secs(1))
                  ELSE Some(DurationMin(mul_f32(Unwrap(batch.delay), delay_mul),
                                        max_event_delay_time))]

(***************************************************************************)
(* in_memory_event_store.rs                                                *)
(***************************************************************************)
\* Vec::with_capacity(capacity) of a non zero-sized element type allocates
\* exactly `capacity` slots, and push below that never reallocates
vec_capacity(cap) == cap

push_unbounded(q, cap, payload) ==
    [res |-> Ok("unit"), queue |-> Append(q, payload)]

\* returns the result and the queue after the call
push(q, cap, payload) ==
    IF Len(q) = vec_capacity(cap)
    THEN [res |-> Err("Event store is full"), queue |-> q]
    ELSE [res |-> Ok("unit"), queue |-> Append(q, payload)]

\* an extraction that copies the events and leaves them in the queue
event_batch_copying(q, bs, size) ==
    IF q = <<>>
    THEN [res |-> Err("Event store is empty"), queue |-> q]
    ELSE IF size > bs
    THEN [res |-> Err("Not enough events to create batch"), queue |-> q]
    ELSE LET finalised == [i \in 1..size |-> finalise_payload(q[i])]
         IN  IF \E i \in 1..size : ~finalised[i].ok
             THEN [res |-> Err("BuilderError"), queue |-> q]
             ELSE IF size = 0
             THEN [res |-> Err("No events to send"), queue |-> q]
             ELSE [res |-> Ok(EventBatch_new(finalised[1].val.eid,
                                             [i \in 1..size |-> finalised[i].val])),
                   queue |-> q]

event_batch(q, bs, size) ==
    IF q = <<>>
    THEN [res |-> Err("Event store is empty"), queue |-> q]
    ELSE IF size > bs
    THEN [res |-> Err("Not enough events to create batch"), queue |-> q]
    ELSE LET drained == SubSeq(q, 1, size)
             rest == SubSeq(q, size + 1, Len(q))
             finalised == [i \in 1..size |-> finalise_payload(drained[i])]
         IN  \* the Drain removes the whole range when it is dropped, also when
             \* collect() stops at the first Err and `?` returns
             IF \E i \in 1..size : ~finalised[i].ok
             THEN [res |-> Err("BuilderError"), queue |-> rest]
             ELSE IF size = 0
             THEN [res |-> Err("No events to send"), queue |-> rest]
             ELSE [res |-> Ok(EventBatch_new(finalised[1].val.eid,
                                             [i \in 1..size |-> finalised[i].val])),
                   queue |-> rest]

\* a full batch only once the queue holds more than one
full_batch_above(q, bs) ==
    IF Len(q) <= bs
    THEN [res |-> Err("Not enough events in the event store for a full batch"),
          queue |-> q]
    ELSE event_batch(q, bs, bs)

full_batch(q, bs) ==
    IF Len(q) < bs
    THEN [res |-> Err("Not enough events in the event store for a full batch"),
          queue |-> q]
    ELSE event_batch(q, bs, bs)

batch_of(q, bs, size) ==
    IF size > Len(q)
    THEN [res |-> Err("Requested batch size is greater than queue length"),
          queue |-> q]
    ELSE event_batch(q, bs, size)

(***************************************************************************)
(* batch_emitter.rs: response classification                               *)
(***************************************************************************)
DONT_RETRY_STATUS_CODES == {400, 401, 403, 410, 422}

is_successful_response(code) == code >= 200 /\ code < 300

should_retry_any_failure(code) == ~is_successful_response(code)

should_retry(code) ==
    IF is_successful_response(code)
    THEN FALSE
    ELSE code \notin DONT_RETRY_STATUS_CODES

(***************************************************************************)
(* batch_emitter.rs: messages and channels                                 *)
(***************************************************************************)
NoBatch == EventBatch_new(0, <<>>)

Send(batch) == [kind |-> "Send", batch |-> batch]
Close == [kind |-> "Close", batch |-> NoBatch]

try_send_ignoring_closed(chan, cap, w, msg) ==
    IF Len(chan) >= cap THEN Err("no available capacity")
    ELSE Ok(Append(chan, msg))

\* a sender that reports the failure of the delivery that has just ended
try_send_after_failure(chan, cap, w, msg) ==
    IF last.op = "post" /\ ~(last.ok /\ is_successful_response(last.arg))
    THEN Err("delivery failed")
    ELSE IF w = "stopped" THEN Err("channel closed")
    ELSE IF Len(chan) >= cap THEN Err("no available capacity")
    ELSE Ok(Append(chan, msg))

\* a sender that never finds the channel full
try_send_growing(chan, cap, w, msg) ==
    IF w = "stopped" THEN Err("channel closed")
    ELSE Ok(Append(chan, msg))

\* tokio::sync::mpsc::Sender::try_send on the channel built by create_emitter
\* with `event_store_capacity` slots: Closed once the receiver is gone,
\* Full when every slot is taken, never blocking
try_send(chan, cap, w, msg) ==
    IF w = "stopped" THEN Err("channel closed")
    ELSE IF Len(chan) >= cap THEN Err("no available capacity")
    ELSE Ok(Append(chan, msg))

(***************************************************************************)
(* The record of a call that has just returned: its name, its argument     *)
(* (0 when it has none), whether it returned Ok (for a predicate: true)    *)
(* and the batch it returned, if any.  The end of a post is recorded with  *)
(* the status code as argument (0 and not ok for a transport error) and    *)
(* with what batch_send_task logged for it and the events as posted.  A    *)
(* step that is no call leaves NoCall.                                     *)
(***************************************************************************)
Call(op, arg, ok, out) == [op |-> op, arg |-> arg, ok |-> ok, out |-> out]

NoCall == Call("none", 0, TRUE, <<>>)

(***************************************************************************)
(* HttpClient doubles.  "any": a collector that may answer anything or     *)
(* fail; "flakey": tests/common/flakey_http_client.rs                      *)
(***************************************************************************)
TransportError == Err("POST request failed")

Statuses == {200, 400, 500}

AnyTransport == [kind |-> "any", number_of_events_to_block |-> 0]

\* a collector that may also answer with each status of DONT_RETRY_STATUS_CODES
RejectingCollector == [kind |-> "rejecting", number_of_events_to_block |-> 0]

\* the status codes a collector may answer with
Responses(t) ==
    IF t.kind = "rejecting"
    THEN DONT_RETRY_STATUS_CODES \cup {200, 500}
    ELSE Statuses
FlakeyHttpClient(k) == [kind |-> "flakey", number_of_events_to_block |-> k]

post_blocking_one_more(t, c) ==
    IF t.kind = "flakey"
    THEN IF c <= t.number_of_events_to_block
         THEN {[resp |-> Ok(500), count |-> c + 1]}
         ELSE {[resp |-> Ok(200), count |-> c]}
    ELSE {[resp |-> Ok(code), count |-> c] : code \in Responses(t)}
         \cup {[resp |-> TransportError, count |-> c]}

\* the possible results of HttpClient::post, each with the counter after it
post(t, c) ==
    IF t.kind = "flakey"
    THEN IF c < t.number_of_events_to_block
         THEN {[resp |-> Ok(500), count |-> c + 1]}
         ELSE {[resp |-> Ok(200), count |-> c]}
    ELSE {[resp |-> Ok(code), count |-> c] : code \in Responses(t)}
         \cup {[resp |-> TransportError, count |-> c]}

(***************************************************************************)
(* Send tasks.  A spawned task is "running": it sleeps for the delay of    *)
(* its batch, if it has one, and then calls send_batch; it touches nothing *)
(* shared before the post returns, so both are one step that leaves it     *)
(* "finished".                                                             *)
(***************************************************************************)
Task(batch) == [batch |-> batch, pc |-> "running"]

\* tokio_tasks.retain(|t| !t.is_finished())
retain(tasks) == SelectSeq(tasks, LAMBDA t : t.pc # "finished")

spawn_twice(tasks, batch) ==
    retain(Append(Append(tasks, Task(batch)), Task(batch)))

\* an arm that spawns the task without pushing its handle onto tokio_tasks
spawn_unregistered(tasks, batch) == retain(tasks)

\* the arm of `match message` taken for EmitterMessage::Send(batch)
spawn(tasks, batch) == retain(Append(tasks, Task(batch)))

(***************************************************************************)
(* The Mutex around the event store: free, or held by the producer inside  *)
(* add or flush, or by the send task of a batch inside run_cleanup         *)
(***************************************************************************)
Unlocked == [by |-> "none", id |-> 0]
LockedBy(who, id) == [by |-> who, id |-> id]

(***************************************************************************)
(* Initial states                                                          *)
(***************************************************************************)
\* a batch takes the event id of its first payload as its id
BatchIds == 1..MaxPayloads

Policies == {NoRetry} \cup {MaxRetries(n) : n \in 0..MaxN}

\* an event store may be handed to the builder with payloads already in it
Prefilled(cap) ==
    UNION {[1..n -> BOOLEAN] : n \in 0..Min(cap, MaxPayloads)}

InitEmitter ==
    /\ count = 0
    /\ tx = <<>>
    /\ retry_rx = <<>>
    /\ worker = "running"
    /\ tokio_tasks = <<>>
    /\ emitter = "alive"
    /\ spawned = {}
    /\ posts = [b \in BatchIds |-> 0]
    /\ acks = [b \in BatchIds |-> 0]
    /\ last = NoCall
    /\ now = 0
    /\ store_lock = Unlocked

Init ==
    /\ capacity \in {1, MaxCapacity}
    /\ batch_size \in 1..capacity
    /\ retry_policy \in Policies
    /\ transport = AnyTransport
    /\ \E f \in Prefilled(capacity) :
          /\ queue = [i \in DOMAIN f |-> PayloadBuilder(i, f[i])]
          /\ next_eid = Len(queue) + 1
    /\ InitEmitter

(***************************************************************************)
(* impl Emitter for BatchEmitter                                           *)
(***************************************************************************)
\* what add computes: the result, the queue and the channel after the call,
\* and the batches enqueued
add(q, chan, cap, bs, w, payload) ==
    LET stored == push(q, cap, payload) IN
    IF ~stored.res.ok
    THEN [ok |-> FALSE, queue |-> stored.queue, tx |-> chan, out |-> <<>>]
    ELSE LET batch == full_batch(stored.queue, bs) IN
         IF ~batch.res.ok
         THEN [ok |-> TRUE, queue |-> batch.queue, tx |-> chan, out |-> <<>>]
         ELSE LET sent == try_send(chan, cap, w, Send(batch.res.val)) IN
              IF sent.ok
              THEN [ok |-> TRUE, queue |-> batch.queue, tx |-> sent.val,
                    out |-> <<batch.res.val>>]
              ELSE [ok |-> FALSE, queue |-> batch.queue, tx |-> chan, out |-> <<>>]

Add ==
    /\ emitter = "alive"
    /\ next_eid <= MaxPayloads
    /\ \E complete \in BOOLEAN :
          LET payload == PayloadBuilder(next_eid, complete)
              r == add(queue, tx, capacity, batch_size, worker, payload)
          IN /\ queue' = r.queue
             /\ tx' = r.tx
             /\ last' = Call("add", payload, r.ok, <<>>)
    /\ next_eid' = next_eid + 1
    /\ UNCHANGED <<configVars, now, store_lock, count, retry_rx, worker, tokio_tasks, emitter,
                   spawned, posts, acks>>

\* the `while let Ok(batch) = store_lock.full_batch()` loop of flush
RECURSIVE flush_full_batches(_, _, _, _, _, _)
flush_full_batches(q, chan, cap, bs, w, out) ==
    LET batch == full_batch(q, bs) IN
    IF ~batch.res.ok
    THEN [ok |-> TRUE, queue |-> batch.queue, tx |-> chan, out |-> out]
    ELSE LET sent == try_send(chan, cap, w, Send(batch.res.val)) IN
         IF ~sent.ok
         THEN [ok |-> FALSE, queue |-> batch.queue, tx |-> chan, out |-> out]
         ELSE flush_full_batches(batch.queue, sent.val, cap, bs, w,
                                 Append(out, batch.res.val))

flush(q, chan, cap, bs, w) ==
    LET full == flush_full_batches(q, chan, cap, bs, w, <<>>) IN
    IF ~full.ok
    THEN full
    ELSE LET remaining_events == Len(full.queue)
             final_batch == batch_of(full.queue, bs, remaining_events)
         IN IF ~final_batch.res.ok
            THEN [ok |-> FALSE, queue |-> final_batch.queue, tx |-> full.tx,
                  out |-> full.out]
            ELSE LET sent == try_send(full.tx, cap, w, Send(final_batch.res.val)) IN
                 IF ~sent.ok
                 THEN [ok |-> FALSE, queue |-> final_batch.queue, tx |-> full.tx,
                       out |-> full.out]
                 ELSE [ok |-> TRUE, queue |-> final_batch.queue, tx |-> sent.val,
                       out |-> Append(full.out, final_batch.res.val)]

Flush ==
    /\ emitter = "alive"
    /\ LET r == flush(queue, tx, capacity, batch_size, worker)
       IN /\ queue' = r.queue
          /\ tx' = r.tx
          /\ last' = Call("flush", 0, r.ok, <<>>)
    /\ UNCHANGED <<configVars, now, store_lock, next_eid, count, retry_rx, worker, tokio_tasks,
                   emitter, spawned, posts, acks>>

CloseEmitter ==
    /\ emitter = "alive"
    /\ LET sent == try_send(tx, capacity, worker, Close)
       IN /\ tx' = IF sent.ok THEN sent.val ELSE tx
          /\ last' = Call("close", 0, sent.ok, <<>>)
    /\ UNCHANGED <<configVars, now, store_lock, queue, next_eid, count, retry_rx, worker,
                   tokio_tasks, emitter, spawned, posts, acks>>

(***************************************************************************)
(* impl Drop for BatchEmitter: join the worker thread, then the fields     *)
(* (the sender tx among them) are dropped                                  *)
(***************************************************************************)
Drop ==
    /\ emitter = "alive"
    /\ emitter' = "joining"
    /\ UNCHANGED <<configVars, now, store_lock, queue, next_eid, count, tx, retry_rx, worker,
                   tokio_tasks, spawned, posts, acks>>
    /\ last' = NoCall

JoinedWithoutWaiting ==
    /\ emitter = "joining"
    /\ emitter' = "dropped"
    /\ UNCHANGED <<configVars, now, store_lock, queue, next_eid, count, tx, retry_rx, worker,
                   tokio_tasks, spawned, posts, acks>>
    /\ last' = NoCall

Joined ==
    /\ emitter = "joining"
    /\ worker = "stopped"
    /\ emitter' = "dropped"
    /\ UNCHANGED <<configVars, now, store_lock, queue, next_eid, count, tx, retry_rx, worker,
                   tokio_tasks, spawned, posts, acks>>
    /\ last' = NoCall

(***************************************************************************)
(* start_tokio: the emitter loop                                           *)
(***************************************************************************)
select_command_first(retry, chan) ==
    IF chan # <<>> THEN "command"
    ELSE IF retry # <<>> THEN "retry"
    ELSE "pending"

\* tokio::select! { biased; retry = retry_rx.recv() => .., event = rx.recv() => .. }
select(retry, chan) ==
    IF retry # <<>> THEN "retry"
    ELSE IF chan # <<>> THEN "command"
    ELSE "pending"

\* a loop that goes on taking retries while it waits for the registered tasks
WorkerRecvRetryWhileClosing ==
    /\ worker \in {"running", "closing"}
    /\ retry_rx # <<>>
    /\ retry_rx' = Tail(retry_rx)
    /\ tokio_tasks' = spawn(tokio_tasks, Head(retry_rx).batch)
    /\ spawned' = spawned \cup {Head(retry_rx).batch.id}
    /\ UNCHANGED <<configVars, now, store_lock, queue, next_eid, count, tx, worker, emitter,
                   posts, acks>>
    /\ last' = NoCall

WorkerRecvRetry ==
    /\ worker = "running"
    /\ select(retry_rx, tx) = "retry"
    /\ retry_rx' = Tail(retry_rx)
    /\ tokio_tasks' = spawn(tokio_tasks, Head(retry_rx).batch)
    /\ spawned' = spawned \cup {Head(retry_rx).batch.id}
    /\ UNCHANGED <<configVars, now, store_lock, queue, next_eid, count, tx, worker, emitter,
                   posts, acks>>
    /\ last' = NoCall

\* a loop that awaits the spawned tasks' sleeps: it takes no Send while a
\* task is in its backoff delay
WorkerRecvSendAfterBackoff ==
    /\ worker = "running"
    /\ select(retry_rx, tx) = "command"
    /\ Head(tx).kind = "Send"
    /\ \A i \in 1..Len(tokio_tasks) :
          tokio_tasks[i].pc = "running" => tokio_tasks[i].batch.delay = None
    /\ tx' = Tail(tx)
    /\ tokio_tasks' = spawn(tokio_tasks, Head(tx).batch)
    /\ spawned' = spawned \cup {Head(tx).batch.id}
    /\ UNCHANGED <<configVars, now, store_lock, queue, next_eid, count, retry_rx, worker, emitter,
                   posts, acks>>
    /\ last' = NoCall

WorkerRecvSend ==
    /\ worker = "running"
    /\ select(retry_rx, tx) = "command"
    /\ Head(tx).kind = "Send"
    /\ tx' = Tail(tx)
    /\ tokio_tasks' = spawn(tokio_tasks, Head(tx).batch)
    /\ spawned' = spawned \cup {Head(tx).batch.id}
    /\ UNCHANGED <<configVars, now, store_lock, queue, next_eid, count, retry_rx, worker, emitter,
                   posts, acks>>
    /\ last' = NoCall

\* EmitterMessage::Close: the loop starts awaiting the registered tasks
WorkerRecvCloseOrDisconnected ==
    /\ worker = "running"
    /\ \/ /\ select(retry_rx, tx) = "command"
          /\ Head(tx).kind = "Close"
          /\ tx' = Tail(tx)
       \/ /\ select(retry_rx, tx) = "pending"
          /\ emitter = "joining"
          /\ tx' = tx
    /\ worker' = "closing"
    /\ UNCHANGED <<configVars, now, store_lock, queue, next_eid, count, retry_rx, tokio_tasks,
                   emitter, spawned, posts, acks>>
    /\ last' = NoCall

WorkerRecvClose ==
    /\ worker = "running"
    /\ select(retry_rx, tx) = "command"
    /\ Head(tx).kind = "Close"
    /\ tx' = Tail(tx)
    /\ worker' = "closing"
    /\ UNCHANGED <<configVars, now, store_lock, queue, next_eid, count, retry_rx, tokio_tasks,
                   emitter, spawned, posts, acks>>
    /\ last' = NoCall

WorkerStopWithoutAwait ==
    /\ worker = "closing"
    /\ worker' = "stopped"
    /\ UNCHANGED <<configVars, now, store_lock, queue, next_eid, count, tx, retry_rx, tokio_tasks,
                   emitter, spawned, posts, acks>>
    /\ last' = NoCall

\* every `task.await` has returned: break, the runtime and both receivers are
\* dropped with whatever is left in the channels
WorkerStop ==
    /\ worker = "closing"
    /\ \A i \in 1..Len(tokio_tasks) : tokio_tasks[i].pc = "finished"
    /\ worker' = "stopped"
    /\ UNCHANGED <<configVars, now, store_lock, queue, next_eid, count, tx, retry_rx, tokio_tasks,
                   emitter, spawned, posts, acks>>
    /\ last' = NoCall

(***************************************************************************)
(* batch_send_task                                                         *)
(***************************************************************************)
outcome_lenient_on_error(batch, resp, policy) ==
    IF resp.ok
    THEN IF should_retry(resp.val)
         THEN IF has_retry(batch, policy) THEN "retry" ELSE "drop"
         ELSE "sent"
    ELSE IF has_retry_weak(batch, policy) THEN "retry" ELSE "drop"

\* the arm taken once send_batch has returned: "retry" (retry_batch),
\* "drop" (warn and run_cleanup) or "sent" (run_cleanup)
outcome(batch, resp, policy) ==
    IF resp.ok
    THEN IF should_retry(resp.val)
         THEN IF has_retry(batch, policy) THEN "retry" ELSE "drop"
         ELSE "sent"
    ELSE IF has_retry(batch, policy) THEN "retry" ELSE "drop"

\* what the arm taken records in the log when it ends the attempt: retry_batch
\* logs at debug level, the two arms without a retry warn, and the arm taken
\* when should_retry is false logs "Sent batch" at info level
recorded(o) ==
    CASE o = "retry" -> "debug: Batch re-queued"
      [] o = "drop" -> "warn: Batch failed to send, no retry available"
      [] o = "sent" -> "info: Sent batch"

\* the batch a task hands to send_batch: a batch that has a delay is sent
\* after the sleep, with the stm of its events updated
after_delay(batch) ==
    IF batch.delay # None THEN update_event_stm(batch) ELSE batch

\* the whole task: the sleep, send_batch and the handling of its result.
\* Under RetryForever the retries of a batch are unbounded: with saturate false
\* the task explores them up to MaxAttempts retries; with saturate true it
\* explores all of them and, once a batch has been retried MaxAttempts times,
\* holds the count of its posts and its record (retry_attempts, which
\* has_retry does not read under RetryForever, and the delay, which only
\* lengthens the sleep) as they are.
TaskAttempt(i, saturate) ==
    /\ tokio_tasks[i].pc = "running"
    /\ \E r \in post(transport, count) :
          LET batch == after_delay(tokio_tasks[i].batch)
              o == outcome(batch, r.resp, retry_policy)
              forever == saturate /\ retry_policy.kind = "RetryForever"
          IN /\ (o = "retry" /\ retry_policy.kind = "RetryForever" /\ ~saturate)
                 => batch.retry_attempts < MaxAttempts
             /\ count' = r.count
             /\ posts' = [posts EXCEPT ![batch.id] =
                             IF forever THEN Min(@ + 1, MaxAttempts + 1) ELSE @ + 1]
             /\ IF o = "retry"
                THEN /\ \E delay_mul \in jitter(batch) :
                          LET retried == update_for_retry(batch, delay_mul)
                          IN  retry_rx' = Append(retry_rx, Send(
                                  IF forever /\ batch.retry_attempts >= MaxAttempts
                                  THEN batch
                                  ELSE retried))
                     /\ acks' = acks
                ELSE /\ retry_rx' = retry_rx
                     /\ acks' = [acks EXCEPT ![batch.id] = @ + 1]
             /\ last' = Call("post", IF r.resp.ok THEN r.resp.val ELSE 0, r.resp.ok,
                             <<recorded(o), batch.events>>)
    /\ tokio_tasks' = [tokio_tasks EXCEPT ![i] = [batch |-> NoBatch, pc |-> "finished"]]
    /\ UNCHANGED <<configVars, now, store_lock, queue, next_eid, tx, worker, emitter, spawned>>

TaskPost(i) == TaskAttempt(i, FALSE)

Next ==
    \/ Add
    \/ Flush
    \/ CloseEmitter
    \/ WorkerRecvRetry
    \/ WorkerRecvSend
    \/ WorkerRecvClose
    \/ WorkerStop
    \/ \E i \in 1..Len(tokio_tasks) : TaskPost(i)

Spec == Init /\ [][Next]_vars

\* the emitter under RetryForever
InitForever ==
    /\ capacity \in {1, MaxCapacity}
    /\ batch_size \in 1..capacity
    /\ retry_policy = RetryForever
    /\ transport = AnyTransport
    /\ \E f \in Prefilled(capacity) :
          /\ queue = [i \in DOMAIN f |-> PayloadBuilder(i, f[i])]
          /\ next_eid = Len(queue) + 1
    /\ InitEmitter

SpecForever == InitForever /\ [][Next]_vars

\* the emitter of tests/test_batch_emitter.rs: a FlakeyHttpClient that blocks
\* the first k posts, under MaxRetries(n) with k <= n
InitFlakey ==
    /\ capacity \in {1, MaxCapacity}
    /\ batch_size \in 1..capacity
    /\ \E n \in 0..MaxFlakeyN, k \in 0..MaxFlakeyN :
          /\ k <= n
          /\ retry_policy = MaxRetries(n)
          /\ transport = FlakeyHttpClient(k)
    /\ queue = <<>>
    /\ next_eid = 1
    /\ InitEmitter

SpecFlakey == InitFlakey /\ [][Next]_vars

\* the emitter of capacity 1 under every kind of policy, with a collector that
\* answers with any status of DONT_RETRY_STATUS_CODES, 200, 500 or not at all
InitRejecting ==
    /\ capacity = 1
    /\ batch_size = 1
    /\ retry_policy \in {NoRetry, MaxRetries(MaxN), RetryForever}
    /\ transport = RejectingCollector
    /\ queue = <<>>
    /\ next_eid = 1
    /\ InitEmitter

SpecRejecting == InitRejecting /\ [][Next]_vars

\* the emitter behind a producer that makes no further call once its close()
\* has been accepted: the Close command is in the command channel or the
\* worker has taken it
CloseAccepted ==
    \/ worker # "running"
    \/ \E i \in 1..Len(tx) : tx[i].kind = "Close"

NextClose ==
    \/ ~CloseAccepted /\ Add
    \/ ~CloseAccepted /\ Flush
    \/ ~CloseAccepted /\ CloseEmitter
    \/ WorkerRecvRetry
    \/ WorkerRecvSend
    \/ WorkerRecvClose
    \/ WorkerStop
    \/ \E i \in 1..Len(tokio_tasks) : TaskPost(i)

SpecClose == Init /\ [][NextClose]_vars

\* the emitter and its destructor
NextDrop ==
    \/ Next
    \/ Drop
    \/ Joined

\* an emitter built on an empty store whose batches hold one payload or as many
\* as the store
InitDrop ==
    /\ capacity \in {1, MaxCapacity}
    /\ batch_size \in {1, capacity}
    /\ retry_policy \in Policies
    /\ transport = AnyTransport
    /\ queue = <<>>
    /\ next_eid = 1
    /\ InitEmitter

SpecDrop == InitDrop /\ [][NextDrop]_vars

(***************************************************************************)
(* SpecLive: the emitter of capacity 1 with its destructor, under every    *)
(* kind of policy and with all the retries of RetryForever, under fair     *)
(* scheduling.  The tokio runtime runs every spawned task and every        *)
(* transport call returns (weak fairness of the send tasks); the thread of *)
(* the worker and the thread in drop() run (weak fairness of taking a      *)
(* retry, of the end of the loop and of the join).  A command is taken     *)
(* only by a poll that finds the retry channel empty, so taking it is      *)
(* enabled on and off: the loop is granted strong fairness there, the most *)
(* a fair scheduler gives.  Producer calls and the start of drop() are the *)
(* caller's choice and are not fair.                                       *)
(***************************************************************************)
InitLive ==
    /\ capacity = 1
    /\ batch_size = 1
    /\ retry_policy \in {NoRetry, MaxRetries(MaxN), RetryForever}
    /\ transport = AnyTransport
    /\ queue = <<>>
    /\ next_eid = 1
    /\ InitEmitter

TaskPostForever == \E i \in 1..Len(tokio_tasks) : TaskAttempt(i, TRUE)

NextLive ==
    \/ Add
    \/ Flush
    \/ CloseEmitter
    \/ Drop
    \/ Joined
    \/ WorkerRecvRetry
    \/ WorkerRecvSend
    \/ WorkerRecvClose
    \/ WorkerStop
    \/ TaskPostForever

FairLive ==
    /\ WF_vars(WorkerRecvRetry)
    /\ SF_vars(WorkerRecvSend)
    /\ SF_vars(WorkerRecvClose)
    /\ WF_vars(WorkerStop)
    /\ WF_vars(TaskPostForever)
    /\ WF_vars(Joined)

SpecLive == InitLive /\ [][NextLive]_vars /\ FairLive

(***************************************************************************)
(* SpecAck: the emitter on an empty store under MaxRetries, never closed   *)
(* and never destroyed, under fair scheduling.  The tokio runtime runs     *)
(* every spawned task and every transport call returns (weak fairness of   *)
(* the end of a send task); the thread of the worker runs (weak fairness   *)
(* of taking a retry and of taking a command).  Producer calls are the     *)
(* caller's choice and are not fair.                                       *)
(***************************************************************************)
InitAck ==
    /\ capacity \in {1, MaxCapacity}
    /\ batch_size \in 1..capacity
    /\ retry_policy \in {MaxRetries(n) : n \in 0..MaxN}
    /\ transport = AnyTransport
    /\ queue = <<>>
    /\ next_eid = 1
    /\ InitEmitter

TaskPostSome == \E i \in 1..Len(tokio_tasks) : TaskPost(i)

NextAck ==
    \/ Add
    \/ Flush
    \/ WorkerRecvRetry
    \/ WorkerRecvSend
    \/ TaskPostSome

\* the step by which a send task ends: in NextAck the steps of TaskPostSome
\* are the steps that leave a running task finished, and one is possible
\* whenever a task is running, whatever the transport answers
TaskEnds == \E i \in 1..Len(tokio_tasks) :
    /\ tokio_tasks[i].pc = "running"
    /\ tokio_tasks' = [tokio_tasks EXCEPT ![i] = [batch |-> NoBatch, pc |-> "finished"]]

FairAck ==
    /\ WF_vars(WorkerRecvRetry)
    /\ WF_vars(WorkerRecvSend)
    /\ WF_tokio_tasks(TaskEnds)

SpecAck == InitAck /\ [][NextAck]_vars /\ FairAck

(***************************************************************************)
(* SpecStamp: the emitter of capacity 1 while time passes.  The other      *)
(* specifications run at one instant of the clock.                         *)
(***************************************************************************)
InitStamp ==
    /\ capacity = 1
    /\ batch_size = 1
    /\ retry_policy \in {NoRetry, MaxRetries(MaxN)}
    /\ transport = AnyTransport
    /\ queue = <<>>
    /\ next_eid = 1
    /\ InitEmitter

\* the system clock advances
Tick ==
    /\ now < MaxNow
    /\ now' = now + 1
    /\ last' = NoCall
    /\ UNCHANGED <<configVars, store_lock, queue, next_eid, count, tx, retry_rx, worker,
                   tokio_tasks, emitter, spawned, posts, acks>>

NextStamp ==
    \/ Next
    \/ Tick

SpecStamp == InitStamp /\ [][NextStamp]_vars

(***************************************************************************)
(* SpecLock: the emitter of capacity 1 with the steps that take and        *)
(* release the Mutex around the event store.  add holds it from `self.event_store.lock()`    *)
(* to the end of the `let batch = match ..` statement, flush from its      *)
(* lock() to its return, run_cleanup from its lock() to its return.  A     *)
(* send task is "running" while it sleeps and posts, "cleanup" once the    *)
(* post has returned with a result that ends the batch, "cleaning" inside  *)
(* run_cleanup with the lock, and then "finished".  The producer is one    *)
(* thread (add, flush and close take &mut self).                           *)
(***************************************************************************)
InitLock ==
    /\ capacity = 1
    /\ batch_size = 1
    /\ retry_policy \in {NoRetry, MaxRetries(MaxN)}
    /\ transport = AnyTransport
    /\ queue = <<>>
    /\ next_eid = 1
    /\ InitEmitter

AddLock ==
    /\ emitter = "alive"
    /\ next_eid <= MaxPayloads
    /\ store_lock = Unlocked
    /\ store_lock' = LockedBy("add", 0)
    /\ last' = NoCall
    /\ UNCHANGED <<configVars, now, queue, next_eid, count, tx, retry_rx, worker,
                   tokio_tasks, emitter, spawned, posts, acks>>

AddLocked ==
    /\ store_lock = LockedBy("add", 0)
    /\ \E complete \in BOOLEAN :
          LET payload == PayloadBuilder(next_eid, complete)
              r == add(queue, tx, capacity, batch_size, worker, payload)
          IN /\ queue' = r.queue
             /\ tx' = r.tx
             /\ last' = Call("add", payload, r.ok, <<>>)
    /\ next_eid' = next_eid + 1
    /\ store_lock' = Unlocked
    /\ UNCHANGED <<configVars, now, count, retry_rx, worker, tokio_tasks, emitter,
                   spawned, posts, acks>>

FlushLock ==
    /\ emitter = "alive"
    /\ store_lock = Unlocked
    /\ store_lock' = LockedBy("flush", 0)
    /\ last' = NoCall
    /\ UNCHANGED <<configVars, now, queue, next_eid, count, tx, retry_rx, worker,
                   tokio_tasks, emitter, spawned, posts, acks>>

FlushLocked ==
    /\ store_lock = LockedBy("flush", 0)
    /\ LET r == flush(queue, tx, capacity, batch_size, worker)
       IN /\ queue' = r.queue
          /\ tx' = r.tx
          /\ last' = Call("flush", 0, r.ok, <<>>)
    /\ store_lock' = Unlocked
    /\ UNCHANGED <<configVars, now, next_eid, count, retry_rx, worker, tokio_tasks,
                   emitter, spawned, posts, acks>>

\* close() takes no lock; the producer calls it when it is in no other call
CloseUnlocked ==
    /\ store_lock.by \notin {"add", "flush"}
    /\ CloseEmitter

\* the sleep, send_batch and the match on its result up to run_cleanup
TaskSendBatch(i) ==
    /\ tokio_tasks[i].pc = "running"
    /\ \E r \in post(transport, count) :
          LET batch == after_delay(tokio_tasks[i].batch)
              o == outcome(batch, r.resp, retry_policy)
          IN /\ count' = r.count
             /\ posts' = [posts EXCEPT ![batch.id] = @ + 1]
             /\ IF o = "retry"
                THEN /\ \E delay_mul \in jitter(batch) :
                          retry_rx' = Append(retry_rx,
                                             Send(update_for_retry(batch, delay_mul)))
                     /\ tokio_tasks' = [tokio_tasks EXCEPT ![i] =
                                          [batch |-> NoBatch, pc |-> "finished"]]
                ELSE /\ retry_rx' = retry_rx
                     /\ tokio_tasks' = [tokio_tasks EXCEPT ![i] =
                                          [batch |-> batch, pc |-> "cleanup"]]
             /\ last' = Call("post", IF r.resp.ok THEN r.resp.val ELSE 0, r.resp.ok,
                             <<recorded(o), batch.events>>)
    /\ UNCHANGED <<configVars, now, store_lock, queue, next_eid, tx, worker, emitter,
                   spawned, acks>>

\* a task that takes the lock when it starts and posts while it holds it
RunCleanupLockBeforePost(i) ==
    /\ tokio_tasks[i].pc = "running"
    /\ store_lock = Unlocked
    /\ store_lock' = LockedBy("task", tokio_tasks[i].batch.id)
    /\ last' = NoCall
    /\ UNCHANGED <<configVars, now, queue, next_eid, count, tx, retry_rx, worker,
                   tokio_tasks, emitter, spawned, posts, acks>>

\* run_cleanup: store.lock()
RunCleanupLock(i) ==
    /\ tokio_tasks[i].pc = "cleanup"
    /\ store_lock = Unlocked
    /\ store_lock' = LockedBy("task", tokio_tasks[i].batch.id)
    /\ tokio_tasks' = [tokio_tasks EXCEPT ![i].pc = "cleaning"]
    /\ last' = NoCall
    /\ UNCHANGED <<configVars, now, queue, next_eid, count, tx, retry_rx, worker,
                   emitter, spawned, posts, acks>>

\* run_cleanup: cleanup_after_send_attempt and the return that drops the guard
RunCleanupLocked(i) ==
    /\ tokio_tasks[i].pc = "cleaning"
    /\ store_lock = LockedBy("task", tokio_tasks[i].batch.id)
    /\ acks' = [acks EXCEPT ![tokio_tasks[i].batch.id] = @ + 1]
    /\ store_lock' = Unlocked
    /\ tokio_tasks' = [tokio_tasks EXCEPT ![i] = [batch |-> NoBatch, pc |-> "finished"]]
    /\ last' = NoCall
    /\ UNCHANGED <<configVars, now, queue, next_eid, count, tx, retry_rx, worker,
                   emitter, spawned, posts>>

NextLock ==
    \/ AddLock
    \/ AddLocked
    \/ FlushLock
    \/ FlushLocked
    \/ CloseUnlocked
    \/ WorkerRecvRetry
    \/ WorkerRecvSend
    \/ WorkerRecvClose
    \/ WorkerStop
    \/ \E i \in 1..Len(tokio_tasks) : TaskSendBatch(i)
    \/ \E i \in 1..Len(tokio_tasks) : RunCleanupLock(i)
    \/ \E i \in 1..Len(tokio_tasks) : RunCleanupLocked(i)

SpecLock == InitLock /\ [][NextLock]_vars

(***************************************************************************)
(* SpecStore: an InMemoryEventStore::new(capacity, batch_size) driven      *)
(* through the EventStore trait alone                                      *)
(***************************************************************************)
InitStore ==
    /\ capacity \in 0..MaxStoreCapacity
    /\ batch_size \in 0..MaxStoreBatchSize
    /\ retry_policy = NoRetry
    /\ transport = AnyTransport
    /\ queue = <<>>
    /\ next_eid = 1
    /\ InitEmitter

StoreAdd ==
    /\ next_eid <= MaxStorePayloads
    /\ \E complete \in BOOLEAN :
          LET r == push(queue, capacity, PayloadBuilder(next_eid, complete))
          IN /\ queue' = r.queue
             /\ last' = Call("add", next_eid, r.res.ok, <<>>)
    /\ next_eid' = next_eid + 1
    /\ UNCHANGED <<configVars, now, store_lock, count, tx, retry_rx, worker, tokio_tasks, emitter,
                   ghostVars>>

StoreFullBatch ==
    /\ LET r == full_batch(queue, batch_size)
       IN /\ queue' = r.queue
          /\ last' = Call("full_batch", 0, r.res.ok,
                          IF r.res.ok THEN <<r.res.val>> ELSE <<>>)
    /\ UNCHANGED <<configVars, now, store_lock, next_eid, count, tx, retry_rx, worker, tokio_tasks,
                   emitter, ghostVars>>

StoreBatchOf ==
    /\ \E size \in 0..(capacity + 1) :
          LET r == batch_of(queue, batch_size, size)
          IN /\ queue' = r.queue
             /\ last' = Call("batch_of", size, r.res.ok,
                             IF r.res.ok THEN <<r.res.val>> ELSE <<>>)
    /\ UNCHANGED <<configVars, now, store_lock, next_eid, count, tx, retry_rx, worker, tokio_tasks,
                   emitter, ghostVars>>

NextStore ==
    \/ StoreAdd
    \/ StoreFullBatch
    \/ StoreBatchOf

SpecStore == InitStore /\ [][NextStore]_vars

(***************************************************************************)
(* SpecPure: should_retry on every status code of 0..MaxCode, has_retry on *)
(* every policy and retry_attempts up to MaxPureN                          *)
(***************************************************************************)
InitPure ==
    /\ capacity = 1
    /\ batch_size = 1
    /\ retry_policy = NoRetry
    /\ transport = AnyTransport
    /\ queue = <<>>
    /\ next_eid = 1
    /\ InitEmitter

CallShouldRetry ==
    /\ \E code \in 0..MaxCode :
          last' = Call("should_retry", code, should_retry(code), <<>>)
    /\ UNCHANGED <<configVars, now, store_lock, queue, next_eid, count, tx, retry_rx, worker,
                   tokio_tasks, emitter, ghostVars>>

PurePolicies == {NoRetry, RetryForever} \cup {MaxRetries(n) : n \in 0..MaxPureN}

\* a batch that has been through update_for_retry `attempts` times
RetriedBatch(attempts) ==
    [EventBatch_new(1, <<[eid |-> 1, stm |-> 0]>>) EXCEPT
        !.retry_attempts = attempts,
        !.delay = IF attempts = 0 THEN None ELSE Some(from_secs(1))]

CallHasRetry ==
    /\ \E policy \in PurePolicies, attempts \in 0..MaxPureN :
          last' = Call("has_retry", <<policy, attempts>>,
                       has_retry(RetriedBatch(attempts), policy), <<>>)
    /\ UNCHANGED <<configVars, now, store_lock, queue, next_eid, count, tx, retry_rx, worker,
                   tokio_tasks, emitter, ghostVars>>

NextPure ==
    \/ CallShouldRetry
    \/ CallHasRetry

SpecPure == InitPure /\ [][NextPure]_vars

(***************************************************************************)
(* SpecDelay: one batch taken through update_for_retry MaxDelaySteps       *)
(* times, as the consecutive retries of a batch do (and as the test        *)
(* update_batch_delay does once).  last.out holds the batch.               *)
(***************************************************************************)
\* the factors explored: the end points 1.0 and 3.0 and 1.91f32, which is
\* 16022241 * 2^-23
DelayFactors == DelayMul \cup {F32(16022241, -23)}

InitDelay ==
    /\ capacity = 1
    /\ batch_size = 1
    /\ retry_policy = RetryForever
    /\ transport = AnyTransport
    /\ queue = <<>>
    /\ next_eid = 1
    /\ count = 0
    /\ tx = <<>>
    /\ retry_rx = <<>>
    /\ worker = "running"
    /\ tokio_tasks = <<>>
    /\ emitter = "alive"
    /\ spawned = {}
    /\ posts = [b \in BatchIds |-> 0]
    /\ acks = [b \in BatchIds |-> 0]
    /\ last = Call("new", 0, TRUE, <<EventBatch_new(1, <<[eid |-> 1, stm |-> 0]>>)>>)
    /\ now = 0
    /\ store_lock = Unlocked

CallUpdateForRetry ==
    LET batch == last.out[1]
    IN  /\ batch.retry_attempts < MaxDelaySteps
        /\ \E delay_mul \in (IF batch.delay = None THEN {as_f32(1)} ELSE DelayFactors) :
              last' = Call("update_for_retry", delay_mul, TRUE,
                           <<update_for_retry(batch, delay_mul)>>)
        /\ UNCHANGED <<configVars, now, store_lock, queue, next_eid, count, tx, retry_rx, worker,
                       tokio_tasks, emitter, ghostVars>>

NextDelay == CallUpdateForRetry

SpecDelay == InitDelay /\ [][NextDelay]_vars

(***************************************************************************)
(* Properties of the event store (SpecStore)                               *)
(***************************************************************************)
\* the event ids of a sequence of payloads or payload builders
Eids(payloads) == [i \in 1..Len(payloads) |-> payloads[i].eid]

\* C5: for every sequence of EventQueue operations len() never exceeds the
\* capacity; an add while len() < capacity succeeds, appends the payload and
\* increases len() by exactly one; an add at len() = capacity fails and leaves
\* the queue as it was.
C5_AddWithinCapacity ==
    /\ [](Len(queue) <= capacity)
    /\ [][last'.op = "add" =>
            IF Len(queue) < capacity
            THEN /\ last'.ok
                 /\ Len(queue') = Len(queue) + 1
                 /\ SubSeq(queue', 1, Len(queue)) = queue
                 /\ queue'[Len(queue')].eid = last'.arg
            ELSE /\ ~last'.ok
                 /\ queue' = queue]_vars

\* C5 witness: an add at len() = capacity = 2 has just failed
C5_Witness ==
    /\ last.op = "add"
    /\ ~last.ok
    /\ capacity = 2
    /\ Len(queue) = capacity

\* C6: full_batch() succeeds iff len() >= batch_size; on success it removes
\* exactly the first batch_size payloads and returns them in arrival order; on
\* failure the queue is unchanged.
C6_FullBatch ==
    [][last'.op = "full_batch" =>
          /\ last'.ok <=> Len(queue) >= batch_size
          /\ last'.ok =>
                /\ Eids(last'.out[1].events) = Eids(SubSeq(queue, 1, batch_size))
                /\ queue' = SubSeq(queue, batch_size + 1, Len(queue))
          /\ ~last'.ok => queue' = queue]_vars

\* C7: batch_of(n) fails only if n > len() or the queue is empty; for every n
\* with 1 <= n <= len(), whatever batch_size is, it succeeds, removes exactly
\* the first n payloads and returns them in arrival order; when it fails the
\* queue is unchanged.
C7_BatchOf ==
    [][last'.op = "batch_of" =>
          /\ (1 <= last'.arg /\ last'.arg <= Len(queue)) => last'.ok
          /\ last'.ok =>
                /\ Eids(last'.out[1].events) = Eids(SubSeq(queue, 1, last'.arg))
                /\ queue' = SubSeq(queue, last'.arg + 1, Len(queue))
          /\ ~last'.ok => queue' = queue]_vars

\* C31: batch extraction is all-or-nothing: if full_batch or batch_of returns
\* an error for any reason, a payload that fails to be finalised during the
\* extraction included, the store holds the same payloads in the same order as
\* before the call.
C31_AllOrNothing ==
    [][(last'.op \in {"full_batch", "batch_of"} /\ ~last'.ok) =>
          queue' = queue]_vars

(***************************************************************************)
(* Properties of the pure functions (SpecPure)                             *)
(***************************************************************************)
\* C8: for every status code in 0..599, should_retry(code) is true iff the code
\* is not in [200,300) and not one of 400, 401, 403, 410, 422.
C8_ShouldRetry ==
    last.op = "should_retry" =>
        (last.ok <=> /\ ~(200 <= last.arg /\ last.arg < 300)
                     /\ last.arg \notin {400, 401, 403, 410, 422})

\* C8 witness: should_retry(422) has returned false
C8_Witness ==
    /\ last.op = "should_retry"
    /\ last.arg = 422
    /\ ~last.ok

\* C9: has_retry under MaxRetries(n) is true iff retry_attempts < n (false at
\* retry_attempts = n, always false for n = 0); under NoRetry it is always
\* false; under RetryForever always true.
C9_HasRetry ==
    last.op = "has_retry" =>
        LET policy == last.arg[1]
            attempts == last.arg[2]
        IN /\ policy.kind = "MaxRetries" => (last.ok <=> attempts < policy.n)
           /\ policy.kind = "NoRetry" => ~last.ok
           /\ policy.kind = "RetryForever" => last.ok

\* C9 witness: has_retry has denied a retry at retry_attempts = n = 5
C9_Witness ==
    /\ last.op = "has_retry"
    /\ last.arg = <<MaxRetries(5), 5>>
    /\ ~last.ok

(***************************************************************************)
(* Properties of the emitter (Spec, SpecFlakey, SpecRejecting, SpecAck)     *)
(***************************************************************************)
\* the commands that a step has appended to the command channel
Enqueued == SubSeq(tx', Len(tx) + 1, Len(tx'))

\* the event ids carried by a sequence of Send commands, in order
RECURSIVE SentEids(_)
SentEids(sends) ==
    IF sends = <<>>
    THEN <<>>
    ELSE Eids(Head(sends).batch.events) \o SentEids(Tail(sends))

\* the batch a step posts: the one whose count of posts changes
Posted(b) == posts'[b] # posts[b]

\* retry_attempts of batch b as held by the send task that is about to post it
AttemptCount(b) ==
    LET i == CHOOSE j \in 1..Len(tokio_tasks) :
                 tokio_tasks[j].pc = "running" /\ tokio_tasks[j].batch.id = b
    IN tokio_tasks[i].batch.retry_attempts

\* C1: when the worker has stopped after a Close, every batch it spawned a send
\* task for has been acknowledged (delivered, or dropped), and no Send is left
\* in the retry channel or in the command channel.
C1_GracefulShutdown ==
    worker = "stopped" =>
        /\ \A b \in spawned : acks[b] >= 1
        /\ \A i \in 1..Len(retry_rx) : retry_rx[i].kind # "Send"
        /\ \A i \in 1..Len(tx) : tx[i].kind # "Send"

\* C2: with a transport that fails the first k posts with 500 and answers 200
\* afterwards, under MaxRetries(n) with k <= n: a failed post re-queues the
\* batch with its attempt count raised by one and without acknowledging it; the
\* successful post finds attempt_count equal to the number of failed posts of
\* the batch, acknowledges it and re-queues nothing; a batch is acknowledged at
\* most once and posted at most k+1 times, and exactly k+1 times with
\* attempt_count k when it is the batch that took all the failures.
C2_FlakeyDelivery ==
    /\ [](\A b \in BatchIds :
            /\ acks[b] <= 1
            /\ posts[b] <= transport.number_of_events_to_block + 1
            /\ acks[b] = 1 => \A i \in 1..Len(tokio_tasks) :
                                  tokio_tasks[i].pc = "running" => tokio_tasks[i].batch.id # b)
    /\ [][\A b \in BatchIds : Posted(b) =>
            /\ posts'[b] = posts[b] + 1
            /\ IF count < transport.number_of_events_to_block
               THEN /\ acks' = acks
                    /\ Len(retry_rx') = Len(retry_rx) + 1
                    /\ retry_rx'[Len(retry_rx')].kind = "Send"
                    /\ retry_rx'[Len(retry_rx')].batch.id = b
                    /\ retry_rx'[Len(retry_rx')].batch.retry_attempts = AttemptCount(b) + 1
               ELSE /\ acks'[b] = 1
                    /\ retry_rx' = retry_rx
                    /\ AttemptCount(b) = posts[b]
                    /\ (\A c \in BatchIds \ {b} : posts[c] = 0) =>
                          /\ AttemptCount(b) = transport.number_of_events_to_block
                          /\ posts'[b] = transport.number_of_events_to_block + 1]_vars

\* C2 witness: the scenario of the test, k = 2: a batch has been posted three
\* times, the third post succeeded and the batch is acknowledged once
C2_Witness ==
    /\ transport = FlakeyHttpClient(2)
    /\ count = 2
    /\ \E b \in BatchIds : posts[b] = 3 /\ acks[b] = 1

\* C3: whenever add stores a payload and the store length thereby reaches
\* batch_size, exactly one Send carrying exactly those batch_size payloads is
\* appended to the command channel and the store length drops by batch_size;
\* when the length stays below batch_size, add appends no command.
C3_AddTriggersSend ==
    [][(last'.op = "add" /\ Len(queue) < capacity) =>
          /\ Len(queue) + 1 = batch_size =>
                /\ SubSeq(tx', 1, Len(tx)) = tx
                /\ Len(Enqueued) = 1
                /\ Enqueued[1].kind = "Send"
                /\ Eids(Enqueued[1].batch.events) = Eids(queue) \o <<next_eid>>
                /\ Len(queue') = Len(queue) + 1 - batch_size
          /\ Len(queue) + 1 < batch_size => tx' = tx]_vars

\* C4: after flush() returns ok on a store holding L >= 1 payloads, the store is
\* empty and the Send commands appended by the call carry, concatenated in
\* order, exactly the L payloads in arrival order: L \div batch_size full
\* batches, then one partial batch when L is no multiple of batch_size.
C4_FlushDrains ==
    [][(last'.op = "flush" /\ last'.ok /\ Len(queue) >= 1) =>
          /\ queue' = <<>>
          /\ SubSeq(tx', 1, Len(tx)) = tx
          /\ \A i \in 1..Len(Enqueued) : Enqueued[i].kind = "Send"
          /\ SentEids(Enqueued) = Eids(queue)
          /\ Len(Enqueued) = (Len(queue) \div batch_size)
                             + (IF Len(queue) % batch_size = 0 THEN 0 ELSE 1)
          /\ \A i \in 1..(Len(queue) \div batch_size) :
                Len(Enqueued[i].batch.events) = batch_size]_vars

\* C10: whatever the transport returns, under MaxRetries(n) no batch is posted
\* more than n+1 times and under NoRetry no batch is posted more than once; a
\* post re-queues its batch only when the policy still permits a retry at the
\* batch's attempt count.
C10_RetryBound ==
    /\ [](\A b \in BatchIds :
            /\ retry_policy.kind = "MaxRetries" => posts[b] <= retry_policy.n + 1
            /\ retry_policy.kind = "NoRetry" => posts[b] <= 1)
    /\ [][\A b \in BatchIds : (Posted(b) /\ retry_rx' # retry_rx) =>
            \/ retry_policy.kind = "RetryForever"
            \/ /\ retry_policy.kind = "MaxRetries"
               /\ AttemptCount(b) < retry_policy.n]_vars

\* C10 witness: under MaxRetries(1) a batch has been posted n + 1 = 2 times and
\* has come to its end with no retry pending
C10_Witness ==
    /\ retry_policy = MaxRetries(1)
    /\ retry_rx = <<>>
    /\ \E b \in BatchIds :
          /\ posts[b] = 2
          /\ acks[b] = 1

\* the send task at position i of tokio_tasks ends in this step
Finishes(i) ==
    /\ i <= Len(tokio_tasks')
    /\ tokio_tasks[i].pc = "running"
    /\ tokio_tasks'[i].pc = "finished"

\* the send task that posts batch b in this step has ended and holds no batch
TaskEnded(b) ==
    /\ \A i \in 1..Len(tokio_tasks') :
          tokio_tasks'[i].pc = "running" => tokio_tasks'[i].batch.id # b
    /\ \E i \in 1..Len(tokio_tasks) :
          /\ tokio_tasks[i].batch.id = b
          /\ Finishes(i)

\* C11: a response with status 400, 401, 403, 410 or 422 is never retried,
\* under any retry policy, RetryForever included: the batch is acknowledged, its
\* send task ends and nothing is posted to the retry channel.
C11_NoRetryStatus ==
    [][(last'.op = "post" /\ last'.ok /\ last'.arg \in {400, 401, 403, 410, 422}) =>
          /\ retry_rx' = retry_rx
          /\ \E b \in BatchIds :
                /\ Posted(b)
                /\ acks' = [acks EXCEPT ![b] = acks[b] + 1]
                /\ TaskEnded(b)]_vars

\* C11 witness: under RetryForever a post has been answered with 422, the batch
\* is acknowledged and the retry channel is empty
C11_Witness ==
    /\ retry_policy = RetryForever
    /\ last.op = "post"
    /\ last.ok
    /\ last.arg = 422
    /\ retry_rx = <<>>
    /\ \E b \in BatchIds : posts[b] = 1 /\ acks[b] = 1

\* batch b is held somewhere: by a running send task or by a Send message in
\* the retry channel or in the command channel
Held(b) ==
    \/ \E i \in 1..Len(tokio_tasks) :
          tokio_tasks[i].pc = "running" /\ tokio_tasks[i].batch.id = b
    \/ \E i \in 1..Len(retry_rx) : retry_rx[i].kind = "Send" /\ retry_rx[i].batch.id = b
    \/ \E i \in 1..Len(tx) : tx[i].kind = "Send" /\ tx[i].batch.id = b

\* C12: cleanup_after_send_attempt is called at most once per batch, only in
\* the step in which the batch's send task ends without re-queueing it, and an
\* acknowledged batch is held nowhere afterwards, so it is never re-queued or
\* posted again; a post answered with a 2xx acknowledges the batch, which is
\* therefore never posted again.
C12_AcknowledgeOnce ==
    /\ [](\A b \in BatchIds :
            /\ acks[b] <= 1
            /\ acks[b] = 1 => ~Held(b))
    /\ [][/\ \A b \in BatchIds : Posted(b) => acks[b] = 0
          /\ \A b \in BatchIds : acks'[b] # acks[b] =>
                /\ acks'[b] = acks[b] + 1
                /\ Posted(b)
                /\ TaskEnded(b)
                /\ retry_rx' = retry_rx
          /\ (last'.op = "post" /\ last'.ok /\ last'.arg >= 200 /\ last'.arg < 300) =>
                \E b \in BatchIds : Posted(b) /\ acks'[b] = 1]_vars

\* C12 witness: a batch was re-queued after a failed post, posted again with a
\* 2xx answer and is acknowledged once
C12_Witness ==
    /\ last.op = "post"
    /\ last.ok
    /\ last.arg = 200
    /\ \E b \in BatchIds : posts[b] = 2 /\ acks[b] = 1 /\ ~Held(b)

\* C13: if add returns an error the call had no effect: the store and the
\* command channel are as before the call, so a batch extracted for a Send that
\* the channel rejected is not dropped.
C13_AddErrorNoEffect ==
    [][(last'.op = "add" /\ ~last'.ok) =>
          /\ queue' = queue
          /\ tx' = tx]_vars

\* C14: close() is a single non-blocking enqueue of Close: it can always
\* return, it returns ok iff the command channel accepted the Close (the channel
\* has a free slot and the worker has not stopped) and an error otherwise, and
\* it never changes the store.
C14_CloseEnqueue ==
    /\ [](emitter = "alive" => ENABLED CloseEmitter)
    /\ [][last'.op = "close" =>
            /\ queue' = queue
            /\ IF Len(tx) < capacity /\ worker # "stopped"
               THEN last'.ok /\ tx' = Append(tx, Close)
               ELSE ~last'.ok /\ tx' = tx]_vars

\* C14 witness: close() has returned an error because the worker had stopped,
\* although the command channel has a free slot
C14_Witness ==
    /\ last.op = "close"
    /\ ~last.ok
    /\ worker = "stopped"
    /\ Len(tx) < capacity

\* batch b is held by a send task that has not finished
Running(tasks, b) ==
    \E i \in 1..Len(tasks) : tasks[i].pc = "running" /\ tasks[i].batch.id = b

Received == Len(tx') < Len(tx) \/ Len(retry_rx') < Len(retry_rx)

\* C17: whenever the running worker takes its next message while the retry
\* channel is not empty, it takes the head of the retry channel and leaves the
\* command channel alone; it takes a command (a fresh Send or Close) only when
\* the retry channel is empty.
C17_RetryFirst ==
    [][Received =>
          /\ worker = "running"
          /\ IF retry_rx # <<>>
             THEN /\ retry_rx' = Tail(retry_rx)
                  /\ tx' = tx
                  /\ Running(tokio_tasks', Head(retry_rx).batch.id)
             ELSE /\ tx' = Tail(tx)
                  /\ retry_rx' = retry_rx]_vars

\* C17 witness: the worker has taken a retry and spawned its task while a
\* command is waiting in the command channel
C17_Witness ==
    /\ worker = "running"
    /\ last.op = "none"
    /\ retry_rx = <<>>
    /\ tx # <<>>
    /\ \E i \in 1..Len(tokio_tasks) :
          /\ tokio_tasks[i].pc = "running"
          /\ tokio_tasks[i].batch.retry_attempts = 1

\* add(payload) reaches its try_send: the payload was stored and full_batch
\* returned a batch
AddSubmits(payload) ==
    LET stored == push(queue, capacity, payload)
    IN  stored.res.ok /\ full_batch(stored.queue, batch_size).res.ok

\* flush() reaches a try_send: full_batch returned a batch or, when it did
\* not, batch_of returned one for the remaining events
FlushSubmits ==
    LET batch == full_batch(queue, batch_size)
    IN  \/ batch.res.ok
        \/ batch_of(batch.queue, batch_size, Len(batch.queue)).res.ok

\* C19: the number of commands pending in the command channel never exceeds
\* the store capacity read when the emitter was built; a submit (from add,
\* flush or close) that finds the channel at that bound fails immediately with
\* an error and does not grow the channel.
C19_ChannelBound ==
    /\ [](Len(tx) <= capacity)
    /\ [][(Len(tx) = capacity /\ last'.op \in {"add", "flush", "close"}) =>
            /\ tx' = tx
            /\ last'.op = "close" => ~last'.ok
            /\ (last'.op = "flush" /\ FlushSubmits) => ~last'.ok
            /\ (last'.op = "add" /\ AddSubmits(last'.arg)) => ~last'.ok]_vars

\* witness: the worker is running, so the channel is open, every slot of a
\* channel of MaxCapacity slots is taken by a Send, and a close has just failed
C19_Witness ==
    /\ last.op = "close"
    /\ ~last.ok
    /\ worker = "running"
    /\ capacity = MaxCapacity
    /\ Len(tx) = capacity
    /\ \A i \in 1..Len(tx) : tx[i].kind = "Send"

\* the commands the command channel still accepts: none once the receiver is
\* gone, otherwise its free slots
FreeSlots == IF worker = "stopped" THEN 0 ELSE capacity - Len(tx)

\* the number of batches the full_batch loop of flush extracts from q, and the
\* store it leaves
RECURSIVE FullBatches(_)
FullBatches(q) ==
    LET batch == full_batch(q, batch_size)
    IN  IF batch.res.ok THEN 1 + FullBatches(batch.queue) ELSE 0

RECURSIVE AfterFullBatches(_)
AfterFullBatches(q) ==
    LET batch == full_batch(q, batch_size)
    IN  IF batch.res.ok THEN AfterFullBatches(batch.queue) ELSE batch.queue

\* C20: no delivery error ever reaches a producer: the result of every add,
\* flush and close call is determined only by the store contents and the
\* command channel's occupancy and closed state at the time of the call (add:
\* the store takes the payload and, if that fills a batch, the channel takes
\* one command; flush: batch_of succeeds on what the full batches leave and
\* the channel takes every batch; close: the channel takes one command), and
\* the end of a post, whatever its outcome, changes none of these.
C20_NoDeliveryError ==
    [][/\ last'.op = "add" =>
            (last'.ok <=>
                LET stored == push(queue, capacity, last'.arg)
                IN  /\ stored.res.ok
                    /\ full_batch(stored.queue, batch_size).res.ok => FreeSlots >= 1)
       /\ last'.op = "flush" =>
            (last'.ok <=>
                LET rest == AfterFullBatches(queue)
                IN  /\ batch_of(rest, batch_size, Len(rest)).res.ok
                    /\ FullBatches(queue) + 1 <= FreeSlots)
       /\ last'.op = "close" => (last'.ok <=> FreeSlots >= 1)
       /\ last'.op = "post" => UNCHANGED <<queue, tx, worker, emitter>>]_vars

\* witness: a flush has just returned Ok while a batch whose delivery failed
\* waits in the retry channel
C20_Witness ==
    /\ last.op = "flush"
    /\ last.ok
    /\ \E i \in 1..Len(retry_rx) : retry_rx[i].batch.retry_attempts >= 1

\* the batches held by a Send in either channel or by an unfinished send task
HeldBatches ==
    {tx[i].batch : i \in {j \in 1..Len(tx) : tx[j].kind = "Send"}}
    \cup {retry_rx[i].batch : i \in 1..Len(retry_rx)}
    \cup {tokio_tasks[i].batch :
            i \in {j \in 1..Len(tokio_tasks) : tokio_tasks[j].pc = "running"}}

\* event ids are handed out in the order of the adds
InAddOrder(events) ==
    \A i, j \in 1..Len(events) : i < j => events[i].eid < events[j].eid

\* C22: within a batch the payloads are posted in the order in which they
\* were added to the store, in the original send and in every retry:
\* extraction takes a run of neighbouring payloads of the store in their order,
\* the task spawned for a message holds the batch of the message, the batch a
\* task re-queues has the id and the events of the batch it posted, and so
\* every batch held by a channel or about to be posted is non-empty, in add
\* order and without duplicates.
C22_BatchOrder ==
    /\ [](\A batch \in HeldBatches :
            /\ batch.events # <<>>
            /\ InAddOrder(batch.events)
            /\ batch.id = batch.events[1].eid)
    /\ [][/\ last'.op \in {"add", "flush"} =>
               LET store == IF last'.op = "add" THEN Append(queue, last'.arg) ELSE queue
               IN  \A i \in 1..Len(Enqueued) :
                      LET events == Enqueued[i].batch.events
                      IN  \E k \in 1..Len(store) :
                             /\ k + Len(events) - 1 <= Len(store)
                             /\ Eids(events) = Eids(SubSeq(store, k, k + Len(events) - 1))
          /\ (Received /\ worker' = "running") =>
               LET message == IF Len(tx') < Len(tx) THEN Head(tx) ELSE Head(retry_rx)
               IN  /\ tokio_tasks' # <<>>
                   /\ tokio_tasks'[Len(tokio_tasks')] = Task(message.batch)
          /\ \A i \in 1..Len(tokio_tasks) :
               (Finishes(i) /\ Len(retry_rx') > Len(retry_rx)) =>
                   LET requeued == retry_rx'[Len(retry_rx')].batch
                   IN  /\ requeued.id = tokio_tasks[i].batch.id
                       /\ Eids(requeued.events) = Eids(tokio_tasks[i].batch.events)]_vars

\* witness: a send task is about to post, as a retry, a batch of two payloads
C22_Witness ==
    \E i \in 1..Len(tokio_tasks) :
        /\ tokio_tasks[i].pc = "running"
        /\ tokio_tasks[i].batch.retry_attempts >= 1
        /\ Eids(tokio_tasks[i].batch.events) = <<1, 2>>

\* C23: every batch that ends without a successful (2xx) delivery, whether
\* dropped on a non-retryable status or because the retry policy is exhausted,
\* produces a recorded failure (a warning); a dropped batch is never recorded
\* as a successful send.
C23_DropIsRecorded ==
    [][\A b \in BatchIds :
          (/\ Posted(b)
           /\ acks'[b] # acks[b]
           /\ ~(last'.ok /\ is_successful_response(last'.arg))) =>
               last'.out[1] = recorded("drop")]_vars

\* C24: for every batch at every moment retry_attempts equals the number of
\* times the batch has been scheduled for retry: 0 when it is extracted and
\* during the original send, one more with every re-queue and unchanged by a
\* post (so a batch that is held somewhere has been re-queued after each of
\* its posts and retry_attempts is their number); and the delay is unset iff
\* retry_attempts is 0.
C24_AttemptCount ==
    /\ [](\A batch \in HeldBatches :
            /\ batch.retry_attempts = posts[batch.id]
            /\ batch.delay = None <=> batch.retry_attempts = 0)
    /\ [][/\ \A i \in 1..Len(Enqueued) :
                Enqueued[i].kind = "Send" =>
                    /\ Enqueued[i].batch.retry_attempts = 0
                    /\ Enqueued[i].batch.delay = None
          /\ \A i \in 1..Len(tokio_tasks) :
                Finishes(i) =>
                    /\ Len(retry_rx') <= Len(retry_rx) + 1
                    /\ Len(retry_rx') > Len(retry_rx) =>
                          retry_rx'[Len(retry_rx')].batch.retry_attempts
                              = tokio_tasks[i].batch.retry_attempts + 1]_vars

\* witness: a batch that was posted once waits in the retry channel with one
\* retry counted and a delay of one second
C24_Witness ==
    \E i \in 1..Len(retry_rx) :
        /\ retry_rx[i].batch.retry_attempts = 1
        /\ retry_rx[i].batch.delay = Some(from_secs(1))
        /\ posts[retry_rx[i].batch.id] = 1

\* the handling of a retryable failure of the post of `batch`: the batch is
\* re-queued with the backoff update when the policy permits a retry, and is
\* otherwise acknowledged and dropped
HandledAsRetryable(batch) ==
    IF has_retry(batch, retry_policy)
    THEN /\ \E delay_mul \in jitter(batch) :
              retry_rx' = Append(retry_rx, Send(update_for_retry(batch, delay_mul)))
         /\ acks' = acks
    ELSE /\ retry_rx' = retry_rx
         /\ acks' = [acks EXCEPT ![batch.id] = @ + 1]

\* C25: a transport error (no response) is handled exactly like a retryable
\* status such as 500: for the same batch state and retry policy the batch is
\* re-queued with the same backoff update when the policy permits a retry, and
\* is otherwise acknowledged and dropped.
C25_TransportErrorAsRetryable ==
    [][\A i \in 1..Len(tokio_tasks) :
          (/\ Finishes(i)
           /\ \/ ~last'.ok
              \/ last'.ok /\ should_retry(last'.arg)) =>
                 HandledAsRetryable(after_delay(tokio_tasks[i].batch))]_vars

\* witness: a post has just ended with a transport error and its batch waits
\* in the retry channel with its backoff updated
C25_Witness ==
    /\ last.op = "post"
    /\ ~last.ok
    /\ retry_rx # <<>>
    /\ retry_rx[Len(retry_rx)].batch.retry_attempts = 1
    /\ retry_rx[Len(retry_rx)].batch.delay = Some(from_secs(1))

Unfinished(tasks) == Len(retain(tasks))

\* C28: once the worker has handled Close it spawns no further send task: no
\* transport post is started after that moment except by send tasks that were
\* already registered, whatever arrives later on the command channel or the
\* retry channel.  From then on nothing is taken from either channel, no
\* batch is spawned, no task starts, and a post is the post of a task that
\* was running.
C28_NoSpawnAfterClose ==
    [][worker # "running" =>
          /\ spawned' = spawned
          /\ Len(tx') >= Len(tx) /\ SubSeq(tx', 1, Len(tx)) = tx
          /\ Len(retry_rx') >= Len(retry_rx)
          /\ SubSeq(retry_rx', 1, Len(retry_rx)) = retry_rx
          /\ Unfinished(tokio_tasks') <= Unfinished(tokio_tasks)
          /\ \A b \in BatchIds :
                /\ Running(tokio_tasks', b) => Running(tokio_tasks, b)
                /\ posts'[b] # posts[b] =>
                      /\ Running(tokio_tasks, b)
                      /\ Unfinished(tokio_tasks') < Unfinished(tokio_tasks)]_vars

\* C28 witness: after Close was handled a registered task has posted and
\* re-queued its batch, which waits in the retry channel while a Send accepted
\* later waits in the command channel
C28_Witness ==
    /\ worker = "closing"
    /\ last.op = "post"
    /\ retry_rx # <<>>
    /\ \E i \in 1..Len(tx) : tx[i].kind = "Send"

\* every payload of q finalises
AllComplete(q) == \A i \in 1..Len(q) : q[i].complete

\* C29: flush() returns ok whenever no partial batch remains to be sent: on an
\* empty store (no command enqueued, store unchanged) and on a store whose
\* length is an exact positive multiple of batch_size (every full batch
\* enqueued, store left empty).  The second case is taken with payloads that
\* all finalise and a command channel that has a slot for every full batch.
C29_FlushOkWithoutPartial ==
    [][last'.op = "flush" =>
          /\ queue = <<>> =>
                /\ last'.ok
                /\ tx' = tx
                /\ queue' = queue
          /\ (/\ queue # <<>>
              /\ Len(queue) % batch_size = 0
              /\ AllComplete(queue)
              /\ FreeSlots >= Len(queue) \div batch_size) =>
                /\ last'.ok
                /\ Len(Enqueued) = Len(queue) \div batch_size
                /\ SentEids(Enqueued) = Eids(queue)
                /\ queue' = <<>>]_vars

\* the elements of a sequence
Range(f) == {f[i] : i \in 1..Len(f)}

\* the Send commands flush has to enqueue to empty a store of q
BatchesToFlush(q) ==
    (Len(q) \div batch_size) + (IF Len(q) % batch_size = 0 THEN 0 ELSE 1)

\* C30: if flush() returns an error because the command channel rejected a
\* Send, every payload that was in the store before the call is either still
\* in the store or inside a Send command that the channel accepted; no batch
\* extracted by flush is discarded.  The channel rejects a Send of the call
\* when the store holds payloads, which all finalise, for more batches than
\* the channel has slots.
C30_FlushErrorKeepsPayloads ==
    [][(/\ last'.op = "flush"
        /\ ~last'.ok
        /\ queue # <<>>
        /\ AllComplete(queue)
        /\ FreeSlots < BatchesToFlush(queue)) =>
            Range(Eids(queue)) \subseteq
                Range(Eids(queue')) \cup Range(SentEids(Enqueued))]_vars

\* C32: at every post of a batch, the original send as well as each retry, all
\* payloads of the batch carry the sent-at timestamp of that send attempt
\* (taken when the post is issued, after any backoff delay), not the time of
\* enqueue or of batch extraction.
C32_StampedAtPost ==
    [][last'.op = "post" =>
          \A k \in 1..Len(last'.out[2]) : last'.out[2][k].stm = now]_vars

\* the send task at position i of tokio_tasks is in the backoff delay of a
\* retry
InBackoff(i) ==
    tokio_tasks[i].pc = "running" /\ tokio_tasks[i].batch.delay # None

\* C33: a send task that is waiting out its backoff delay does not stop the
\* running worker from receiving commands and spawning other send tasks: a
\* batch submitted while another batch is in backoff can be posted and
\* acknowledged before the delayed batch's retry is posted.  While a task is
\* in backoff the running worker can take the message its select! picks, a
\* Send at the head of the command channel included, and every other task
\* that has not finished can post.
C33_BackoffDoesNotBlock ==
    (worker = "running" /\ \E i \in 1..Len(tokio_tasks) : InBackoff(i)) =>
        /\ select(retry_rx, tx) = "retry" => ENABLED WorkerRecvRetry
        /\ (select(retry_rx, tx) = "command" /\ Head(tx).kind = "Send") =>
               ENABLED WorkerRecvSend
        /\ (select(retry_rx, tx) = "command" /\ Head(tx).kind = "Close") =>
               ENABLED WorkerRecvClose
        /\ \A j \in 1..Len(tokio_tasks) :
               tokio_tasks[j].pc = "running" => ENABLED TaskPost(j)

\* C33 witness: the first batch failed once and its task is in the backoff
\* delay of the retry, not yet posted again, while the batch submitted after
\* that failure was spawned, posted and acknowledged
C33_Witness ==
    /\ worker = "running"
    /\ \E i \in 1..Len(tokio_tasks) :
          /\ InBackoff(i)
          /\ posts[tokio_tasks[i].batch.id] = 1
          /\ \E b \in spawned :
                /\ b > tokio_tasks[i].batch.id
                /\ posts[b] = 1
                /\ acks[b] = 1

\* C34: the store lock is never held while a transport post, a backoff sleep
\* or any other blocking wait is in progress by its holder: it is taken only
\* inside add, flush and the acknowledge step, so a slow or hung transport
\* never makes add, flush or close block, and producers and send tasks cannot
\* deadlock on the lock.  A task that sleeps or posts does not hold the lock;
\* whoever holds it can finish and release it without any other step; close
\* can return whoever holds it; and add and flush can start whenever it is
\* free, whatever the send tasks are doing.
C34_LockScope ==
    /\ store_lock.by \in {"none", "add", "flush", "task"}
    /\ \A i \in 1..Len(tokio_tasks) :
          tokio_tasks[i].pc \in {"running", "cleanup"} =>
              store_lock # LockedBy("task", tokio_tasks[i].batch.id)
    /\ store_lock.by = "task" =>
          \E i \in 1..Len(tokio_tasks) :
              /\ tokio_tasks[i].pc = "cleaning"
              /\ tokio_tasks[i].batch.id = store_lock.id
              /\ ENABLED RunCleanupLocked(i)
    /\ store_lock.by = "add" => ENABLED AddLocked
    /\ store_lock.by = "flush" => ENABLED FlushLocked
    /\ (emitter = "alive" /\ store_lock.by \notin {"add", "flush"}) =>
          ENABLED CloseUnlocked
    /\ (emitter = "alive" /\ store_lock = Unlocked) =>
          /\ ENABLED FlushLock
          /\ next_eid <= MaxPayloads => ENABLED AddLock

\* C34 witness: the producer holds the lock inside flush while one send task
\* is posting and another, whose post has returned, waits for the lock
C34_Witness ==
    /\ store_lock.by = "flush"
    /\ \E i, j \in 1..Len(tokio_tasks) :
          /\ tokio_tasks[i].pc = "running"
          /\ tokio_tasks[j].pc = "cleanup"

\* C35: send tasks never touch the event store directly: a send task never
\* acquires the lock of the store and never calls a store operation itself,
\* it only signals its outcome; and in every case a send task leaves the
\* sequence of queued payloads unchanged.
C35_TasksLeaveStoreAlone ==
    /\ [](store_lock.by # "task")
    /\ [][(posts' # posts \/ acks' # acks \/ store_lock'.by = "task") =>
             queue' = queue]_vars

\* the batches held by a pending Send command, a retry message or a send task
\* that has not finished, one entry for each place (a Close command and a
\* finished task hold none)
HeldSeq ==
    SelectSeq([i \in 1..Len(tx) |-> tx[i].batch]
              \o [i \in 1..Len(retry_rx) |-> retry_rx[i].batch]
              \o [i \in 1..Len(tokio_tasks) |-> tokio_tasks[i].batch],
              LAMBDA batch : batch.events # <<>>)

\* C36: each dequeued batch is held in at most one place at any moment (one
\* pending Send command, one send task, or one retry-channel message): no
\* batch is ever posted by two send tasks concurrently, no batch is re-queued
\* twice for the same failed attempt, and no payload belongs to two batches
\* or to a batch and the store.
C36_SingleHolder ==
    /\ [](LET held == HeldSeq
              eids == [k \in 1..Len(held) |-> Range(Eids(held[k].events))]
              stored == Range(Eids(queue))
          IN  /\ \A k \in 1..Len(held) :
                    /\ eids[k] \cap stored = {}
                    /\ Cardinality(eids[k]) = Len(held[k].events)
              /\ \A k \in 1..Len(held) : \A l \in (k + 1)..Len(held) :
                    /\ held[k].id # held[l].id
                    /\ eids[k] \cap eids[l] = {})
    /\ [][Len(retry_rx') <= Len(retry_rx) + 1]_vars

\* C36 witness: two batches are in flight, one waiting in the retry channel
\* after its failed post and one, re-queued before, in the send task of its
\* retry
C36_Witness ==
    \E i \in 1..Len(retry_rx), j \in 1..Len(tokio_tasks) :
        /\ tokio_tasks[j].pc = "running"
        /\ tokio_tasks[j].batch.delay # None
        /\ retry_rx[i].batch.id # tokio_tasks[j].batch.id

\* C38: for a store with 1 <= batch_size <= capacity that starts empty and is
\* driven only through add and flush of the emitter, the store holds fewer
\* than batch_size payloads whenever no producer call is in progress, and so
\* no add finds the queue full: the push of every add succeeds.
C38_AddNeverFull ==
    /\ [](Len(queue) < batch_size)
    /\ [][last'.op = "add" => push(queue, capacity, last'.arg).res.ok]_vars

\* C38 witness: with batch_size = capacity, an add made after an earlier add
\* had filled the store to capacity, the store emptied by a full batch again
C38_Witness ==
    /\ last.op = "add"
    /\ batch_size = capacity
    /\ queue = <<>>
    /\ next_eid > batch_size + 1

(***************************************************************************)
(* Properties of the destructor (SpecDrop)                                 *)
(***************************************************************************)
\* C16: the destructor of the emitter returns only after the worker has
\* stopped: in no reachable state has it returned while the worker loop or a
\* send task is still running.
C16_DropAfterStop ==
    emitter = "dropped" =>
        /\ worker = "stopped"
        /\ \A i \in 1..Len(tokio_tasks) : tokio_tasks[i].pc = "finished"

\* C16 witness: the destructor has returned after the worker had waited for a
\* send task and stopped
C16_Witness ==
    /\ emitter = "dropped"
    /\ worker = "stopped"
    /\ \E b \in BatchIds : posts[b] >= 1

\* C39: if the emitter is destroyed without a Close command having been
\* accepted, destruction never completes: drop() joins the worker thread while
\* the emitter still holds the only command sender, so from then on the worker
\* stays in its loop, no Close can arrive and the join never returns.
C39_DropWithoutCloseHangs ==
    [][(emitter = "joining" /\ ~CloseAccepted)
          => (emitter' = "joining" /\ worker' = "running" /\ ~CloseAccepted')]_vars

\* C39 witness: drop() is joining a worker that has sent what it was given and
\* now waits on two empty channels, no Close among the commands it was sent
C39_Witness ==
    /\ emitter = "joining"
    /\ ~CloseAccepted
    /\ select(retry_rx, tx) = "pending"
    /\ \A i \in 1..Len(tokio_tasks) : tokio_tasks[i].pc = "finished"
    /\ \E b \in BatchIds : acks[b] >= 1

(***************************************************************************)
(* Properties of the backoff delay (SpecDelay)                             *)
(***************************************************************************)
\* the sum of two Durations
DurationAdd(a, b) ==
    Duration(a.secs + b.secs + (a.nanos + b.nanos) \div NANOS_PER_SEC,
             (a.nanos + b.nanos) % NANOS_PER_SEC)

\* one millionth of d, rounded up to whole microseconds
Millionth(d) == Duration(0, (d.secs + 1) * 1000)

\* C18 as stated: for consecutive retries of the same batch the first delay is
\* 1 second and each later delay d' satisfies d <= d' <= min(3 * d, ceiling),
\* where d is the previous delay and the ceiling is 600,000 seconds.
C18_BackoffBounds ==
    [][last'.op = "update_for_retry" =>
        LET before == last.out[1].delay
            after == last'.out[1].delay
        IN  IF before = None
            THEN after = Some(from_secs(1))
            ELSE LET d == Unwrap(before)
                     d2 == Unwrap(after)
                 IN  /\ DurationLe(d, d2)
                     /\ DurationLe(d2, DurationMin(DurationAdd(d, DurationAdd(d, d)),
                                                   max_event_delay_time))]_vars

\* C18, amended: for consecutive retries of the same batch the first delay is
\* 1 second and each later delay d' never exceeds the ceiling of 600,000
\* seconds and lies within the rounding of the f32 product of [d, 3 * d]:
\* d <= d' + e and d' <= min(3 * d + e, ceiling), where d is the previous delay
\* and e is one millionth of d.
C18_BackoffBoundsRounded ==
    [][last'.op = "update_for_retry" =>
        LET before == last.out[1].delay
            after == last'.out[1].delay
        IN  IF before = None
            THEN after = Some(from_secs(1))
            ELSE LET d == Unwrap(before)
                     d2 == Unwrap(after)
                     e == Millionth(d)
                 IN  /\ DurationLe(d, DurationAdd(d2, e))
                     /\ DurationLe(d2, DurationAdd(DurationAdd(d, DurationAdd(d, d)), e))
                     /\ DurationLe(d2, max_event_delay_time)]_vars

\* witness: a retry with the factor 3.0 whose product passed the ceiling and
\* was capped at it, after a delay that was still below the ceiling
C18_Witness ==
    /\ last.op = "update_for_retry"
    /\ last.arg = as_f32(3)
    /\ last.out[1].delay = Some(max_event_delay_time)
    /\ last.out[1].retry_attempts = 14

Accepted(b) == \E i \in 1..Len(tx) : tx[i].kind = "Send" /\ tx[i].batch.id = b

\* C37: with MaxRetries(n), a worker that stays in its loop and a transport
\* whose calls always return, every batch accepted by the command channel is,
\* under fair scheduling, eventually acknowledged, and exactly once: no batch
\* is acknowledged twice, and an acknowledgement follows a post that was
\* answered with 2xx or with a status that is not retried, or that was the
\* (n+1)-th failed post of the batch.
C37_AcknowledgedOnce ==
    /\ \A b \in BatchIds : Accepted(b) ~> (acks[b] = 1)
    /\ [](\A b \in BatchIds : acks[b] <= 1)
    /\ [][\A b \in BatchIds : acks'[b] # acks[b] =>
              /\ last'.op = "post"
              /\ \/ last'.ok /\ ~should_retry(last'.arg)
                 \/ posts'[b] = retry_policy.n + 1]_vars

\* C37 witness: a batch has been acknowledged after its (n+1)-th failed post,
\* n > 0
C37_Witness == \E b \in BatchIds :
    /\ acks[b] = 1
    /\ retry_policy.n > 0
    /\ posts[b] = retry_policy.n + 1
    /\ last.op = "post"
    /\ ~(last.ok /\ ~should_retry(last.arg))

(***************************************************************************)
(* Properties of the shutdown (SpecClose)                                  *)
(***************************************************************************)
\* C21: handling the Close message also sends all events currently in the
\* event store: every payload that is in the store when Close is handled is
\* extracted into a batch and posted before the worker stops.  In SpecClose
\* no producer call follows the accepted close(), so the store the stopped
\* worker leaves is the store it found when it handled Close, and a payload
\* still in it was neither extracted nor posted.
C21_CloseSendsStore == worker = "stopped" => queue = <<>>

====
